---- MODULE Spec2Model ----
(***************************************************************************)
(* Model of the subnet scanner of iptools (src/modules/scanner.rs).        *)
(*                                                                         *)
(* The UI thread runs on_key (edit, start, stop) and update (tick); every  *)
(* start spawns one task that drives a buffer_unordered stream of probe    *)
(* futures.  All runs share ONE completed counter (Arc<AtomicU64>), ONE    *)
(* abort flag (Arc<Mutex<bool>>) and ONE mpsc channel: the fields are      *)
(* created in new() and only cloned in start_scan.                         *)
(*                                                                         *)
(* IPv4 addresses are scaled from 32 bits to IPV4_BITS bits; the code's    *)
(* literal 31 is IPV4_BITS - 1 and u32::MAX is 2^IPV4_BITS - 1.            *)
(***************************************************************************)
EXTENDS Integers, Sequences, FiniteSets, TLC

\* ---- bounds ----
IPV4_BITS == 4
MaxRuns == 2
MaxConcurrency == 2
MaxProbes == 4

\* ---- program constants ----
ChannelCap == 100

Pow2(n) == 2 ^ n

U32_MAX == Pow2(IPV4_BITS) - 1

Addrs == 0 .. U32_MAX

\* What the operator can have typed: an address and a prefix length; a
\* prefix length above IPV4_BITS stands for a string that does not parse.
AllCidrs == [addr : Addrs, prefix : 0 .. (IPV4_BITS + 1)]

Malformed == [addr |-> 0, prefix |-> IPV4_BITS + 1]

\* The inputs of the concurrent model: a malformed text and the smallest
\* block that has a network and a broadcast address (two hosts).
ScanCidrs ==
  { Malformed,
    [addr |-> 0, prefix |-> IPV4_BITS - 2] }

\* The limits drawn for a start: one probe at a time, or the largest limit.
Concurrencies == {1, MaxConcurrency}

\* Outcomes of resolve_hostname: None or Some(name).
NoHost == "None"

\* The outcomes drawn in the concurrent model.
HostOpts == {NoHost}

\* Mutation: a failed hostname resolution is sent as it is.
UnwrapOrDefault_Keep(o) == o

\* Option<String>::unwrap_or_default
UnwrapOrDefault(o) == IF o = NoHost THEN "" ELSE o

\* ---- Ipv4Network ----
ParseCidr(c) ==
  IF c.prefix <= IPV4_BITS
    THEN [ok |-> TRUE, addr |-> c.addr, prefix |-> c.prefix]
    ELSE [ok |-> FALSE, addr |-> 0, prefix |-> 0]

HostSpan(n) == Pow2(IPV4_BITS - n.prefix)

Network(n) == n.addr - (n.addr % HostSpan(n))

Broadcast(n) == Network(n) + HostSpan(n) - 1

\* Ipv4Network::size returns a u32: the /0 block, whose size does not fit,
\* is reported as u32::MAX.
Size(n) == IF n.prefix = 0 THEN U32_MAX ELSE HostSpan(n)

\* Ipv4Network::iter: from network() to network() + size() - 1.
Iter(n) == [i \in 1 .. Size(n) |-> Network(n) + i - 1]

SaturatingSub(a, b) == IF a >= b THEN a - b ELSE 0

Skip(s, k) == IF k >= Len(s) THEN <<>> ELSE SubSeq(s, k + 1, Len(s))

Take(s, k) == IF k >= Len(s) THEN s ELSE SubSeq(s, 1, k)

\* Mutation: the two end addresses are taken off whatever the prefix length.
HostCount_AlwaysTrim(n) == SaturatingSub(Size(n), 2)

HostCount(n) ==
  IF n.prefix < IPV4_BITS - 1 THEN SaturatingSub(Size(n), 2) ELSE Size(n)

HostIps(n) ==
  IF n.prefix < IPV4_BITS - 1
    THEN Take(Skip(Iter(n), 1), SaturatingSub(Size(n), 2))
    ELSE Iter(n)

\* ---- sort_by(|a, b| a.ip.cmp(&b.ip)), a stable sort ----
RECURSIVE InsertByIp(_, _)
InsertByIp(s, x) ==
  IF s = <<>> THEN <<x>>
  ELSE IF s[Len(s)].ip <= x.ip THEN Append(s, x)
  ELSE Append(InsertByIp(SubSeq(s, 1, Len(s) - 1), x), s[Len(s)])

RECURSIVE SortByIp(_)
SortByIp(s) ==
  IF s = <<>> THEN <<>>
  ELSE InsertByIp(SortByIp(SubSeq(s, 1, Len(s) - 1)), s[Len(s)])

VARIABLES
  cidr_input,          \* ScannerModule.cidr_input
  results,             \* ScannerModule.results
  status,              \* ScannerModule.status
  total_scan_count,    \* ScannerModule.total_scan_count
  current_scan_count,  \* the shared AtomicU64
  abort_flag,          \* the shared Mutex<bool>
  chan,                \* the mpsc queue between tx and rx
  tasks,               \* the spawned scan tasks, one per start, in order
  stopped,             \* history: the runs stop() was called on
  ticked,              \* history: the last step was update
  idle_stop            \* history: the last step was 's' with no scan running

\* Bounds of the ping model: starts and echo requests explored; u64, the
\* ring capacities (100 and 20) and the queue capacity (100) scaled down.
MaxSessions == 2

MaxRequests == 3

U64_MOD == 4

HISTORY_CAP == 2

LOG_CAP == 2

PING_CHANNEL_CAP == 2

\* ---- the ping tool (src/modules/diagnostics/ping.rs) ----
VARIABLES
  platform,            \* the build: run_ping_unix or run_ping_windows
  ping_running,        \* PingTool.running
  ping_abort,          \* PingTool.abort_flag, one Mutex<bool> for all sessions
  ping_chan,           \* the mpsc queue between PingTool.tx and PingTool.rx
  ping_stats,          \* PingTool.stats
  ping_loops,          \* the spawned probing tasks, one per start, in order
  ping_stopped,        \* history: the loops whose session stop() was called on
  start_ignored,       \* history: the last step was start() on a running tool
  applied,             \* history: the events update applied since the last start
  ping_config,         \* PingTool.config: target, interval_ms, timeout_ms, packet_size
  config_selected      \* PingTool.config_state.selected(), always Some(i)

cfgvars == <<ping_config, config_selected>>

pingvars == <<platform, ping_running, ping_abort, ping_chan, ping_stats,
              ping_loops, ping_stopped, start_ignored, applied, cfgvars>>

\* ---- the traffic samplers (src/modules/traffic.rs, adapter.rs, dashboard.rs) ----

\* The latest time of an update explored, in ms after the start.
MaxClock == 300

\* 2^64, the range of the byte counters and of the rates, scaled.
COUNTER_MOD == 65536

VARIABLES
  sampler,             \* the module that samples: "traffic", "adapter" or "dashboard"
  clock,               \* Instant::now() of the last update, in ms after the start
  networks,            \* the cumulative counters of each adapter at the last refresh
  traffic_history,     \* history / traffic_history / traffic_stats: adapter -> Option
  initial_stats,       \* TrafficModule.initial_stats
  display_items,       \* TrafficModule.display_items, by adapter name
  sampler_panicked     \* the update panicked on an arithmetic overflow

trafficvars == <<sampler, clock, networks, traffic_history, initial_stats,
                 display_items, sampler_panicked>>

VARIABLES
  interfaces,          \* AdapterModule.interfaces, the adapter names in list order
  adapter_selected,    \* AdapterModule.state.selected(): Option<usize>
  scan_concurrency,    \* Config.scan_concurrency
  language,            \* Config.language and I18n.current_lang
  settings_selected,   \* SettingsModule.state.selected(), always Some(i): i
  public_info,         \* Dashboard.public_info
  lookups,             \* the spawned lookup tasks that have not sent yet
  dash_chan,           \* the mpsc queue between Dashboard.tx and Dashboard.rx
  fetches              \* history: the number of fetch_public_ip calls so far

adaptervars == <<interfaces, adapter_selected>>

settingsvars == <<scan_concurrency, language, settings_selected>>

dashvars == <<public_info, lookups, dash_chan, fetches>>

panelvars == <<adaptervars, settingsvars, dashvars>>

vars == <<cidr_input, results, status, total_scan_count, current_scan_count,
          abort_flag, chan, tasks, stopped, ticked, idle_stop, pingvars,
          trafficvars, panelvars>>

\* Option<u64>: None is the empty sequence, Some(v) is <<v>>.
None == <<>>

Some(v) == <<v>>

\* PingStats::default
PingStatsDefault ==
  [sent |-> 0, recv |-> 0, min_latency |-> None, max_latency |-> None,
   total_latency |-> 0, jitter_sum |-> 0, last_latency |-> None,
   prev_latency |-> None, history |-> <<>>, logs |-> <<>>]

\* The two builds: cfg(not(target_os = "windows")) and cfg(target_os = "windows").
Platforms == {"unix", "windows"}

\* "8.8.8.8", a String as the sequence of its characters.
DefaultTarget == <<"8", ".", "8", ".", "8", ".", "8">>

\* PingConfig::default
PingConfigDefault ==
  [target |-> DefaultTarget, interval_ms |-> 1000, timeout_ms |-> 2000,
   packet_size |-> 32]

\* The tool as PingTool::new builds it, with the configuration cfg.
PingInitWith(cfg) ==
  /\ ping_running = FALSE
  /\ ping_abort = FALSE
  /\ ping_chan = <<>>
  /\ ping_stats = PingStatsDefault
  /\ ping_loops = <<>>
  /\ ping_stopped = {}
  /\ start_ignored = FALSE
  /\ applied = <<>>
  /\ ping_config = cfg
  /\ config_selected = 0

\* PingTool::new
PingInit == PingInitWith(PingConfigDefault)

\* A step of the scanner leaves the ping tool untouched.
PingIdle == UNCHANGED pingvars

\* The adapters sysinfo lists; none of them matches the ignore_keywords
\* of the traffic table.
Adapters == {"eth0", "wlan0"}

\* The adapter the dashboard chose in refresh_active_interface.
ActiveInterface == "eth0"

\* The values total_received() and total_transmitted() return.
Counters == {800, 1000}

\* One refresh of sysinfo::Networks: rx and tx of every adapter.
Readings == [Adapters -> [rx : Counters, tx : Counters]]

Samplers == {"traffic", "adapter", "dashboard"}

\* TrafficModule::new, AdapterModule::new, Dashboard::new: module m starts
\* with the counters c; only TrafficModule::new records them as the baseline.
TrafficInitWith(m, c) ==
  /\ sampler = m
  /\ clock = 0
  /\ networks = c
  /\ traffic_history = [a \in Adapters |-> None]
  /\ initial_stats = IF m = "traffic" THEN c ELSE <<>>
  /\ display_items = <<>>
  /\ sampler_panicked = FALSE

TrafficInit ==
  TrafficInitWith("traffic", [a \in Adapters |-> [rx |-> 800, tx |-> 800]])

\* A step of the scanner or of the ping tool leaves the samplers untouched.
TrafficIdle == UNCHANGED trafficvars

\* The adapters net::get_interfaces can list on Windows (loopback and
\* tunnel adapters are skipped); on the other platforms the list is empty.
InterfaceNames == {"Ethernet", "Ethernet 2", "Wi-Fi", "Wi-Fi 2"}

\* PublicInfoState::Loading
Loading == [state |-> "Loading"]

\* fetch_public_ip: the language of the URL it builds from lang_code.
ApiLang(lang_code) == IF lang_code = "zh-CN" THEN "zh-CN" ELSE "en"

\* The lookup task that the n-th fetch_public_ip call spawns.
Lookup(n, lang_code) == [req |-> n, lang |-> ApiLang(lang_code)]

\* App::new with the adapter list ifs and the configuration (conc, lang):
\* AdapterModule::new, SettingsModule::new, Dashboard::new and the first
\* fetch_public_ip.
PanelsInitWith(ifs, conc, lang) ==
  /\ interfaces = ifs
  /\ adapter_selected = IF ifs # <<>> THEN Some(0) ELSE None
  /\ scan_concurrency = conc
  /\ language = lang
  /\ settings_selected = 0
  /\ public_info = Loading
  /\ lookups = {Lookup(1, lang)}
  /\ dash_chan = <<>>
  /\ fetches = 1

\* Config::default on a host where get_interfaces lists nothing.
PanelsInit == PanelsInitWith(<<>>, 50, "zh-CN")

\* A step of the scanner, the ping tool or a sampler leaves the panels untouched.
PanelsIdle == UNCHANGED panelvars

RECURSIVE Dispatched(_)
\* The number of hosts handed to the streams of the first r tasks.
Dispatched(r) == IF r = 0 THEN 0 ELSE Dispatched(r - 1) + Len(tasks[r].ips)

CurRun == Len(tasks)

Runs == 1 .. Len(tasks)

Hosts(r) == 1 .. Len(tasks[r].ips)

\* Probes of run r that were started and have not finished.
InFlight(r) == {i \in Hosts(r) : tasks[r].pc[i] \notin {"new", "done"}}

ScanResult(ip, hostname, r) ==
  [ip |-> ip, mac |-> "mac", hostname |-> hostname, run |-> r]

ScanInit(c) ==
  /\ cidr_input = c
  /\ results = <<>>
  /\ status = "Idle"
  /\ total_scan_count = 0
  /\ current_scan_count = 0
  /\ abort_flag = FALSE
  /\ chan = <<>>
  /\ tasks = <<>>
  /\ stopped = {}
  /\ ticked = FALSE
  /\ idle_stop = FALSE

InitWith(c) == ScanInit(c) /\ platform = "unix" /\ PingInit /\ TrafficInit /\ PanelsInit

Init == \E c \in ScanCidrs : InitWith(c)

\* on_key in input mode: the operator rewrites the CIDR text.
EditCidrIn(S) ==
  /\ \E c \in S : cidr_input' = c
  /\ cidr_input' # cidr_input
  /\ ticked' = FALSE
  /\ idle_stop' = FALSE
  /\ UNCHANGED <<results, status, total_scan_count, current_scan_count,
                 abort_flag, chan, tasks, stopped>>

EditCidr == EditCidrIn(ScanCidrs)

\* The addresses the spawned task collects for the text c.
SpawnedIps(c) ==
  LET network == ParseCidr(c)
  IN IF network.ok THEN HostIps(network) ELSE <<>>

\* The model spawns at most MaxRuns tasks with at most MaxProbes hosts.
WithinBudget ==
  /\ Len(tasks) < MaxRuns
  /\ Dispatched(Len(tasks)) + Len(SpawnedIps(cidr_input)) <= MaxProbes

\* on_key Enter -> start_scan
StartScan(concurrency) ==
  /\ status # "Scanning"
  /\ LET network == ParseCidr(cidr_input)
         ips == SpawnedIps(cidr_input)
     IN /\ results' = <<>>
        /\ status' = "Scanning"
        /\ current_scan_count' = 0
        /\ abort_flag' = FALSE
        /\ total_scan_count' =
             IF network.ok THEN HostCount(network) ELSE total_scan_count
        /\ tasks' = Append(tasks,
             [cidr |-> cidr_input,
              concurrency |-> concurrency,
              ips |-> ips,
              pc |-> [i \in 1 .. Len(ips) |-> "new"],
              incs |-> [i \in 1 .. Len(ips) |-> 0]])
  /\ ticked' = FALSE
  /\ idle_stop' = FALSE
  /\ UNCHANGED <<cidr_input, chan, stopped>>

\* Mutation: 's' raises the flag and ends the run whatever the status.
Stop_Unguarded ==
  /\ abort_flag' = TRUE
  /\ status' = "Done"
  /\ stopped' = stopped \cup {CurRun}
  /\ ticked' = FALSE
  /\ UNCHANGED <<cidr_input, results, total_scan_count, current_scan_count,
                 chan, tasks>>

\* on_key 's'
Stop ==
  /\ IF status = "Scanning"
       THEN /\ abort_flag' = TRUE
            /\ status' = "Done"
            /\ stopped' = stopped \cup {CurRun}
       ELSE UNCHANGED <<abort_flag, status, stopped>>
  /\ ticked' = FALSE
  /\ UNCHANGED <<cidr_input, results, total_scan_count, current_scan_count,
                 chan, tasks>>

\* Mutation: a finished run falls back to Idle.
StatusAfterUpdate_BackToIdle ==
  IF status = "Scanning"
    THEN IF \/ total_scan_count > 0 /\ current_scan_count >= total_scan_count
            \/ abort_flag
           THEN "Idle" ELSE "Scanning"
    ELSE status

StatusAfterUpdate ==
  IF status = "Scanning"
    THEN IF \/ total_scan_count > 0 /\ current_scan_count >= total_scan_count
            \/ abort_flag
           THEN "Done" ELSE "Scanning"
    ELSE status

\* Mutation: the drained results are appended and left as they arrived.
Drained_NoSort == results \o chan

Drained == IF chan # <<>> THEN SortByIp(results \o chan) ELSE results

\* update, the tick
Update ==
  /\ results' = Drained
  /\ chan' = <<>>
  /\ status' = StatusAfterUpdate
  /\ ticked' = TRUE
  /\ idle_stop' = FALSE
  /\ UNCHANGED <<cidr_input, total_scan_count, current_scan_count,
                 abort_flag, tasks, stopped>>

SetPc(r, i, p) == [tasks EXCEPT ![r].pc[i] = p]

\* Mutation: the probe ends without touching the counter.
CountStep_NoIncrement(r, i) ==
  /\ current_scan_count' = current_scan_count
  /\ tasks' = SetPc(r, i, "done")

\* The closing bookkeeping of a probe future.
CountStep(r, i) ==
  IF ~abort_flag
    THEN /\ current_scan_count' = current_scan_count + 1
         /\ tasks' = [tasks EXCEPT ![r].pc[i] = "done",
                                   ![r].incs[i] = @ + 1]
    ELSE /\ current_scan_count' = current_scan_count
         /\ tasks' = SetPc(r, i, "done")

\* Mutation: the stream polls the next probe whatever is in flight.
Dispatch_Unbounded(r) ==
  /\ r \in Runs
  /\ \E i \in Hosts(r) :
       /\ tasks[r].pc[i] = "new"
       /\ \A j \in Hosts(r) : j < i => tasks[r].pc[j] # "new"
       /\ tasks' = SetPc(r, i, IF abort_flag THEN "done" ELSE "mac")
  /\ ticked' = FALSE
  /\ idle_stop' = FALSE
  /\ UNCHANGED <<cidr_input, results, status, total_scan_count,
                 current_scan_count, abort_flag, chan, stopped>>

\* buffer_unordered polls the next probe future: the cancel check, then the
\* reachability resolution is handed to spawn_blocking.
Dispatch(r) ==
  /\ r \in Runs
  /\ \E i \in Hosts(r) :
       /\ tasks[r].pc[i] = "new"
       /\ \A j \in Hosts(r) : j < i => tasks[r].pc[j] # "new"
       /\ Cardinality(InFlight(r)) < tasks[r].concurrency
       /\ tasks' = SetPc(r, i, IF abort_flag THEN "done" ELSE "mac")
  /\ ticked' = FALSE
  /\ idle_stop' = FALSE
  /\ UNCHANGED <<cidr_input, results, status, total_scan_count,
                 current_scan_count, abort_flag, chan, stopped>>

\* The reachability resolution returns.
MacDone(r, i, found) ==
  /\ r \in Runs /\ i \in Hosts(r)
  /\ tasks[r].pc[i] = "mac"
  /\ IF found
       THEN /\ tasks' = SetPc(r, i, IF abort_flag THEN "done" ELSE "host")
            /\ current_scan_count' = current_scan_count
       ELSE CountStep(r, i)
  /\ ticked' = FALSE
  /\ idle_stop' = FALSE
  /\ UNCHANGED <<cidr_input, results, status, total_scan_count,
                 abort_flag, chan, stopped>>

\* The hostname resolution returns and the result is sent.
HostDone(r, i, host_opt) ==
  /\ r \in Runs /\ i \in Hosts(r)
  /\ tasks[r].pc[i] = "host"
  /\ Len(chan) < ChannelCap
  /\ chan' = Append(chan, ScanResult(tasks[r].ips[i], UnwrapOrDefault(host_opt), r))
  /\ tasks' = SetPc(r, i, "count")
  /\ ticked' = FALSE
  /\ idle_stop' = FALSE
  /\ UNCHANGED <<cidr_input, results, status, total_scan_count,
                 current_scan_count, abort_flag, stopped>>

CountDone(r, i) ==
  /\ r \in Runs /\ i \in Hosts(r)
  /\ tasks[r].pc[i] = "count"
  /\ CountStep(r, i)
  /\ ticked' = FALSE
  /\ idle_stop' = FALSE
  /\ UNCHANGED <<cidr_input, results, status, total_scan_count,
                 abort_flag, chan, stopped>>

Next ==
  \/ EditCidr /\ PingIdle /\ TrafficIdle /\ PanelsIdle
  \/ \E c \in Concurrencies : WithinBudget /\ StartScan(c) /\ PingIdle /\ TrafficIdle /\ PanelsIdle
  \/ Stop /\ idle_stop' = FALSE /\ PingIdle /\ TrafficIdle /\ PanelsIdle
  \/ Update /\ PingIdle /\ TrafficIdle /\ PanelsIdle
  \/ \E r \in Runs : Dispatch(r) /\ PingIdle /\ TrafficIdle /\ PanelsIdle
  \/ \E r \in Runs : \E i \in Hosts(r), f \in BOOLEAN :
       MacDone(r, i, f) /\ PingIdle /\ TrafficIdle /\ PanelsIdle
  \/ \E r \in Runs : \E i \in Hosts(r), h \in HostOpts :
       HostDone(r, i, h) /\ PingIdle /\ TrafficIdle /\ PanelsIdle
  \/ \E r \in Runs : \E i \in Hosts(r) : CountDone(r, i) /\ PingIdle /\ TrafficIdle /\ PanelsIdle

Spec == Init /\ [][Next]_vars

\* Host enumeration over every CIDR of the address space.
InitEnum == \E c \in AllCidrs : InitWith(c)

NextEnum == \E c \in Concurrencies : StartScan(c) /\ PingIdle /\ TrafficIdle /\ PanelsIdle

SpecEnum == InitEnum /\ [][NextEnum]_vars

\* One run on any CIDR in which no host answers and 's' is never pressed.
NextUnreachable ==
  \/ \E c \in Concurrencies : Len(tasks) = 0 /\ StartScan(c) /\ PingIdle /\ TrafficIdle /\ PanelsIdle
  \/ \E r \in Runs : Dispatch(r) /\ PingIdle /\ TrafficIdle /\ PanelsIdle
  \/ \E r \in Runs : \E i \in Hosts(r) : MacDone(r, i, FALSE) /\ PingIdle /\ TrafficIdle /\ PanelsIdle
  \/ Update /\ PingIdle /\ TrafficIdle /\ PanelsIdle

SpecUnreachable == InitEnum /\ [][NextUnreachable]_vars

\* A single scan, with the 's' key pressed at any time and a press that finds
\* no scan running recorded in idle_stop.
NextOneRun ==
  \/ \E c \in Concurrencies : Len(tasks) = 0 /\ StartScan(c) /\ PingIdle /\ TrafficIdle /\ PanelsIdle
  \/ Stop /\ idle_stop' = (status # "Scanning") /\ PingIdle /\ TrafficIdle /\ PanelsIdle
  \/ Update /\ PingIdle /\ TrafficIdle /\ PanelsIdle
  \/ \E r \in Runs : Dispatch(r) /\ PingIdle /\ TrafficIdle /\ PanelsIdle
  \/ \E r \in Runs : \E i \in Hosts(r), f \in BOOLEAN :
       MacDone(r, i, f) /\ PingIdle /\ TrafficIdle /\ PanelsIdle
  \/ \E r \in Runs : \E i \in Hosts(r), h \in HostOpts :
       HostDone(r, i, h) /\ PingIdle /\ TrafficIdle /\ PanelsIdle
  \/ \E r \in Runs : \E i \in Hosts(r) : CountDone(r, i) /\ PingIdle /\ TrafficIdle /\ PanelsIdle

SpecOneRun == Init /\ [][NextOneRun]_vars

\* ------------------------------------------------------------------------
\* The ping tool: PingTool and its probing loops
\* ------------------------------------------------------------------------

scanvars == <<cidr_input, results, status, total_scan_count, current_scan_count,
              abort_flag, chan, tasks, stopped, ticked, idle_stop>>

\* A step of the ping tool leaves the scanner untouched.
ScanIdle == UNCHANGED scanvars

\* The sequence counter of a loop that never ends wraps at 2^64, scaled to
\* U64_MOD. The sums of update (recv, total_latency, jitter_sum) stay far
\* below 2^64 in every run explored and are plain sums.
WrapAdd(a, b) == (a + b) % U64_MOD

\* Round-trip times a reply can report, in ms.
Latencies == {1}

\* PingConfig::default().packet_size, the payload length reported in a Result
PacketSize == 32

\* The ttl run_ping_unix reports; run_ping_windows copies it from the reply.
ReplyTtl == 64

\* The three messages of PingEvent
ResultEvent(l, seq, latency) ==
  [kind |-> "Result", seq |-> seq, latency |-> latency, ttl |-> ReplyTtl,
   size |-> PacketSize, msg |-> "", loop |-> l]

TimeoutEvent(l, seq) ==
  [kind |-> "Timeout", seq |-> seq, latency |-> 0, ttl |-> 0, size |-> 0,
   msg |-> "", loop |-> l]

ErrorEvent(l, msg) ==
  [kind |-> "Error", seq |-> 0, latency |-> 0, ttl |-> 0, size |-> 0,
   msg |-> msg, loop |-> l]

\* Mutation: a full ring drops its newest entry instead of its oldest.
PushRing_DropNewest(q, v, cap) ==
  IF Len(q) >= cap THEN Append(SubSeq(q, 1, Len(q) - 1), v) ELSE Append(q, v)

\* A bounded VecDeque: pop_front when len >= cap, then push_back.
PushRing(q, v, cap) == IF Len(q) >= cap THEN Append(Tail(q), v) ELSE Append(q, v)

\* add_log
AddLog(logs, line) == PushRing(logs, line, LOG_CAP)

\* The log lines format! builds, as the sequence of their parts.
ResultLine(e) ==
  <<"Seq=", e.seq, " bytes=", e.size, " ttl=", e.ttl, " time=", e.latency, "ms">>

TimeoutLine(e) == <<"Seq=", e.seq, " Request timed out">>

ErrorLine(e) == <<"Error: ", e.msg>>

\* Mutation: the minimum is set by the first reply and never lowered.
MinAfter_FirstOnly(min, latency) == IF min # None THEN min ELSE Some(latency)

\* update, the Result arm: min_latency after a reply of `latency` ms
MinAfter(min, latency) ==
  IF min # None /\ ~(latency < min[1]) THEN min ELSE Some(latency)

\* update, the Result arm: max_latency after a reply of `latency` ms
MaxAfter(max, latency) ==
  IF max # None /\ ~(latency > max[1]) THEN max ELSE Some(latency)

\* Mutation: only an increase of the latency adds to the jitter sum.
JitterAfter_IncreaseOnly(st, latency) ==
  IF st.prev_latency # None
  THEN st.jitter_sum
         + (IF latency > st.prev_latency[1] THEN latency - st.prev_latency[1] ELSE 0)
  ELSE st.jitter_sum

\* update, the Result arm: jitter_sum after a reply of `latency` ms
JitterAfter(st, latency) ==
  IF st.prev_latency # None
  THEN st.jitter_sum
         + (IF latency > st.prev_latency[1]
            THEN latency - st.prev_latency[1]
            ELSE st.prev_latency[1] - latency)
  ELSE st.jitter_sum

\* update, the Result arm
ApplyResult(st, e) ==
  [sent |-> WrapAdd(e.seq, 1),
   recv |-> st.recv + 1,
   min_latency |-> MinAfter(st.min_latency, e.latency),
   max_latency |-> MaxAfter(st.max_latency, e.latency),
   total_latency |-> st.total_latency + e.latency,
   jitter_sum |-> JitterAfter(st, e.latency),
   last_latency |-> Some(e.latency),
   prev_latency |-> Some(e.latency),
   history |-> PushRing(st.history, e.latency, HISTORY_CAP),
   logs |-> AddLog(st.logs, ResultLine(e))]

\* Mutation: a timeout counts as received.
ApplyTimeout_CountsReceived(st, e) ==
  [st EXCEPT !.sent = WrapAdd(e.seq, 1),
             !.recv = st.recv + 1,
             !.history = PushRing(st.history, 0, HISTORY_CAP),
             !.logs = AddLog(st.logs, TimeoutLine(e))]

\* update, the Timeout arm
ApplyTimeout(st, e) ==
  [st EXCEPT !.sent = WrapAdd(e.seq, 1),
             !.history = PushRing(st.history, 0, HISTORY_CAP),
             !.logs = AddLog(st.logs, TimeoutLine(e))]

\* update, the Error arm (its stop() is applied by PingUpdate)
ApplyError(st, e) == [st EXCEPT !.logs = AddLog(st.logs, ErrorLine(e))]

ApplyEvent(st, e) ==
  CASE e.kind = "Result" -> ApplyResult(st, e)
    [] e.kind = "Timeout" -> ApplyTimeout(st, e)
    [] OTHER -> ApplyError(st, e)

\* update's while loop over the queued events q, from statistics st
RECURSIVE ApplyAll(_, _)
ApplyAll(st, q) ==
  IF q = <<>> THEN st ELSE ApplyAll(ApplyEvent(st, Head(q)), Tail(q))

\* The session stop() acts on: the loop of the latest start, if any.
CurLoop == IF ping_loops = <<>> THEN {} ELSE {Len(ping_loops)}

Loops == 1 .. Len(ping_loops)

\* The task tokio::spawn creates in start: about to resolve the target.
NewLoop == [pc |-> "setup", seq |-> 0, requests |-> 0, events |-> 0]

\* Mutation: start keeps the statistics of the previous session.
StartSession_KeepStats ==
  /\ ping_running' = TRUE
  /\ ping_abort' = FALSE
  /\ ping_loops' = Append(ping_loops, NewLoop)
  /\ start_ignored' = FALSE
  /\ applied' = <<>>
  /\ UNCHANGED <<platform, ping_chan, ping_stats, ping_stopped, cfgvars>>

\* start, after its running check
StartSession ==
  /\ ping_running' = TRUE
  /\ ping_stats' = PingStatsDefault
  /\ ping_abort' = FALSE
  /\ ping_loops' = Append(ping_loops, NewLoop)
  /\ start_ignored' = FALSE
  /\ applied' = <<>>
  /\ UNCHANGED <<platform, ping_chan, ping_stopped, cfgvars>>

\* Mutation: start without its running check.
PingStart_Unguarded == StartSession

\* start
PingStart ==
  IF ping_running
  THEN /\ start_ignored' = TRUE
       /\ UNCHANGED <<platform, ping_running, ping_abort, ping_chan, ping_stats,
                      ping_loops, ping_stopped, applied, cfgvars>>
  ELSE StartSession

\* stop
PingStop ==
  /\ ping_running' = FALSE
  /\ ping_abort' = TRUE
  /\ ping_stopped' = ping_stopped \cup CurLoop
  /\ start_ignored' = FALSE
  /\ UNCHANGED <<platform, ping_chan, ping_stats, ping_loops, applied, cfgvars>>

\* on_key, the space key with the focus on the main area
PingOnKey == IF ping_running THEN PingStop ELSE PingStart

\* update: drains the queue; an Error event calls stop()
PingUpdate ==
  LET failed == \E k \in 1 .. Len(ping_chan) : ping_chan[k].kind = "Error" IN
  /\ ping_stats' = ApplyAll(ping_stats, ping_chan)
  /\ ping_chan' = <<>>
  /\ IF failed
     THEN /\ ping_running' = FALSE
          /\ ping_abort' = TRUE
          /\ ping_stopped' = ping_stopped \cup CurLoop
     ELSE UNCHANGED <<ping_running, ping_abort, ping_stopped>>
  /\ start_ignored' = FALSE
  /\ UNCHANGED <<platform, ping_loops, cfgvars>>

\* The history of a session: what update applied since the last start.
\* Recorded where the runs are bounded, left alone where loops never end.
Recorded == applied' = applied \o ping_chan

Unrecorded == UNCHANGED applied

\* tx.send(..).await: completes when the bounded queue has room.
HasRoom == Len(ping_chan) < PING_CHANNEL_CAP

\* A step of loop l that touches only the loop, or the loop and the queue.
LoopStep(l, rec, sent) ==
  /\ ping_loops' = [ping_loops EXCEPT ![l] = rec]
  /\ ping_chan' = ping_chan \o sent
  /\ start_ignored' = FALSE
  /\ UNCHANGED <<platform, ping_running, ping_abort, ping_stats, ping_stopped,
                 applied, cfgvars>>

\* The spawned task resolved its target; on unix Pinger::new succeeded.
SetupOk(l) ==
  /\ ping_loops[l].pc = "setup"
  /\ LoopStep(l, [ping_loops[l] EXCEPT !.pc = "check"], <<>>)

\* Mutation: the task reports the failure and tries again.
SetupFail_Retry(l) ==
  /\ ping_loops[l].pc = "setup"
  /\ HasRoom
  /\ LoopStep(l, ping_loops[l], <<ErrorEvent(l, "setup")>>)

\* Resolution failed, the address is IPv6 on windows, or Pinger::new failed.
SetupFail(l) ==
  /\ ping_loops[l].pc = "setup"
  /\ HasRoom
  /\ LoopStep(l, [ping_loops[l] EXCEPT !.pc = "done"], <<ErrorEvent(l, "setup")>>)

\* Top of the loop: break on the flag; else wait for the tick (unix) or hand
\* the echo to spawn_blocking (windows).
LoopCheck(l) ==
  /\ ping_loops[l].pc = "check"
  /\ LoopStep(l,
       IF ping_abort THEN [ping_loops[l] EXCEPT !.pc = "done"]
       ELSE IF platform = "unix" THEN [ping_loops[l] EXCEPT !.pc = "wait"]
       ELSE [ping_loops[l] EXCEPT !.pc = "ping",
                                  !.requests = WrapAdd(ping_loops[l].requests, 1)],
       <<>>)

\* unix: interval.tick() completes and pinger.ping sends the echo request.
LoopTick(l) ==
  /\ platform = "unix"
  /\ ping_loops[l].pc = "wait"
  /\ LoopStep(l, [ping_loops[l] EXCEPT !.pc = "ping",
                                       !.requests = WrapAdd(ping_loops[l].requests, 1)],
              <<>>)

\* Mutation: the sequence number stays when the echo times out.
EchoDone_TimeoutKeepsSeq(l, e) ==
  /\ ping_loops[l].pc = "ping"
  /\ HasRoom
  /\ LoopStep(l,
       IF platform = "unix"
       THEN [ping_loops[l] EXCEPT !.pc = "check",
               !.seq = IF e.kind = "Timeout" THEN @ ELSE WrapAdd(@, 1),
               !.events = WrapAdd(ping_loops[l].events, 1)]
       ELSE [ping_loops[l] EXCEPT !.pc = "sleep",
               !.events = WrapAdd(ping_loops[l].events, 1)],
       <<e>>)

\* The echo completed with a reply or without one: the event e is sent; unix
\* increments seq at once, windows after its sleep.
EchoDone(l, e) ==
  /\ ping_loops[l].pc = "ping"
  /\ HasRoom
  /\ LoopStep(l,
       IF platform = "unix"
       THEN [ping_loops[l] EXCEPT !.pc = "check",
               !.seq = WrapAdd(ping_loops[l].seq, 1),
               !.events = WrapAdd(ping_loops[l].events, 1)]
       ELSE [ping_loops[l] EXCEPT !.pc = "sleep",
               !.events = WrapAdd(ping_loops[l].events, 1)],
       <<e>>)

\* The events one echo at the current seq of loop l can produce.
Outcomes(l) ==
  {ResultEvent(l, ping_loops[l].seq, t) : t \in Latencies}
    \cup {TimeoutEvent(l, ping_loops[l].seq)}

\* windows: IcmpCreateFile failed inside the blocking task.
EchoFail(l) ==
  /\ platform = "windows"
  /\ ping_loops[l].pc = "ping"
  /\ HasRoom
  /\ LoopStep(l, [ping_loops[l] EXCEPT !.pc = "done"],
              <<ErrorEvent(l, "Ping error")>>)

\* windows: the blocking task did not join.
JoinFail(l) ==
  /\ platform = "windows"
  /\ ping_loops[l].pc = "ping"
  /\ LoopStep(l, [ping_loops[l] EXCEPT !.pc = "done"], <<>>)

\* windows: the sleep after the event ends, seq += 1.
LoopSlept(l) ==
  /\ platform = "windows"
  /\ ping_loops[l].pc = "sleep"
  /\ LoopStep(l, [ping_loops[l] EXCEPT !.pc = "check",
                                       !.seq = WrapAdd(ping_loops[l].seq, 1)],
              <<>>)

\* A step of probing loop l when nothing fails and no reply comes back.
LoopRun(l) ==
  \/ SetupOk(l)
  \/ LoopCheck(l)
  \/ LoopTick(l)
  \/ EchoDone(l, TimeoutEvent(l, ping_loops[l].seq))
  \/ LoopSlept(l)

\* The explored part: MaxSessions starts, MaxRequests echo requests in all.
RECURSIVE Requested(_)
Requested(n) == IF n = 0 THEN 0 ELSE Requested(n - 1) + ping_loops[n].requests

CanStart == ping_running \/ Len(ping_loops) < MaxSessions

CanProbe == ping_abort \/ Requested(Len(ping_loops)) < MaxRequests

InitPing ==
  /\ ScanInit(CHOOSE c \in ScanCidrs : c # Malformed)
  /\ platform \in Platforms
  /\ PingInit
  /\ TrafficInit
  /\ PanelsInit

NextPing ==
  \/ CanStart /\ PingOnKey /\ ScanIdle /\ TrafficIdle /\ PanelsIdle
  \/ PingUpdate /\ Recorded /\ ScanIdle /\ TrafficIdle /\ PanelsIdle
  \/ \E l \in Loops : SetupOk(l) /\ ScanIdle /\ TrafficIdle /\ PanelsIdle
  \/ \E l \in Loops : SetupFail(l) /\ ScanIdle /\ TrafficIdle /\ PanelsIdle
  \/ \E l \in Loops : CanProbe /\ LoopCheck(l) /\ ScanIdle /\ TrafficIdle /\ PanelsIdle
  \/ \E l \in Loops : LoopTick(l) /\ ScanIdle /\ TrafficIdle /\ PanelsIdle
  \/ \E l \in Loops : \E e \in Outcomes(l) : EchoDone(l, e) /\ ScanIdle /\ TrafficIdle /\ PanelsIdle
  \/ \E l \in Loops : EchoFail(l) /\ ScanIdle /\ TrafficIdle /\ PanelsIdle
  \/ \E l \in Loops : JoinFail(l) /\ ScanIdle /\ TrafficIdle /\ PanelsIdle
  \/ \E l \in Loops : LoopSlept(l) /\ ScanIdle /\ TrafficIdle /\ PanelsIdle

SpecPing == InitPing /\ [][NextPing]_vars

\* One session of the tool driven through start() and stop() directly, in
\* any order: start() is also called while the tool is running.
NextPingApi ==
  \/ (ping_running \/ ping_loops = <<>>) /\ PingStart /\ ScanIdle /\ TrafficIdle /\ PanelsIdle
  \/ PingStop /\ ScanIdle /\ TrafficIdle /\ PanelsIdle
  \/ PingUpdate /\ Recorded /\ ScanIdle /\ TrafficIdle /\ PanelsIdle
  \/ \E l \in Loops : SetupOk(l) /\ ScanIdle /\ TrafficIdle /\ PanelsIdle
  \/ \E l \in Loops : SetupFail(l) /\ ScanIdle /\ TrafficIdle /\ PanelsIdle
  \/ \E l \in Loops : CanProbe /\ LoopCheck(l) /\ ScanIdle /\ TrafficIdle /\ PanelsIdle
  \/ \E l \in Loops : LoopTick(l) /\ ScanIdle /\ TrafficIdle /\ PanelsIdle
  \/ \E l \in Loops : \E e \in Outcomes(l) : EchoDone(l, e) /\ ScanIdle /\ TrafficIdle /\ PanelsIdle
  \/ \E l \in Loops : EchoFail(l) /\ ScanIdle /\ TrafficIdle /\ PanelsIdle
  \/ \E l \in Loops : JoinFail(l) /\ ScanIdle /\ TrafficIdle /\ PanelsIdle
  \/ \E l \in Loops : LoopSlept(l) /\ ScanIdle /\ TrafficIdle /\ PanelsIdle

SpecPingApi == InitPing /\ [][NextPingApi]_vars

\* Round-trip times of the statistics runs, in ms.
StatLatencies == {90, 100, 120}

StatOutcomes(l) ==
  {ResultEvent(l, ping_loops[l].seq, t) : t \in StatLatencies}
    \cup {TimeoutEvent(l, ping_loops[l].seq)}

\* One session whose echoes come back with any of the StatLatencies or time
\* out, followed up to one push beyond the capacity of the history ring.
NextStats ==
  \/ ping_loops = <<>> /\ PingStart /\ ScanIdle /\ TrafficIdle /\ PanelsIdle
  \/ PingUpdate /\ Recorded /\ ScanIdle /\ TrafficIdle /\ PanelsIdle
  \/ \E l \in Loops : SetupOk(l) /\ ScanIdle /\ TrafficIdle /\ PanelsIdle
  \/ \E l \in Loops :
       Requested(Len(ping_loops)) <= HISTORY_CAP /\ LoopCheck(l) /\ ScanIdle /\ TrafficIdle /\ PanelsIdle
  \/ \E l \in Loops : LoopTick(l) /\ ScanIdle /\ TrafficIdle /\ PanelsIdle
  \/ \E l \in Loops : \E e \in StatOutcomes(l) : EchoDone(l, e) /\ ScanIdle /\ TrafficIdle /\ PanelsIdle
  \/ \E l \in Loops : LoopSlept(l) /\ ScanIdle /\ TrafficIdle /\ PanelsIdle

SpecStats == InitPing /\ [][NextStats]_vars

\* The tool with its loops running as long as they like: the runtime keeps
\* scheduling a spawned task that can step, and the 250 ms tick keeps draining.
NextPingFair ==
  \/ CanStart /\ PingOnKey /\ ScanIdle /\ TrafficIdle /\ PanelsIdle
  \/ PingUpdate /\ Unrecorded /\ ScanIdle /\ TrafficIdle /\ PanelsIdle
  \/ \E l \in Loops : LoopRun(l) /\ ScanIdle /\ TrafficIdle /\ PanelsIdle

SpecPingFair ==
  /\ InitPing
  /\ [][NextPingFair]_vars
  /\ \A l \in 1 .. MaxSessions : WF_vars(l \in Loops /\ LoopRun(l) /\ ScanIdle /\ TrafficIdle /\ PanelsIdle)
  /\ WF_vars(PingUpdate /\ Unrecorded /\ ScanIdle /\ TrafficIdle /\ PanelsIdle)

\* ------------------------------------------------------------------------
\* Properties
\* ------------------------------------------------------------------------

\* The parsed network of the task of run r (defined when its text parses).
NetOf(r) == ParseCidr(tasks[r].cidr)

IpSet(r) == {tasks[r].ips[i] : i \in Hosts(r)}

\* C1: every host whose probe has ended, at whichever stage, has incremented
\* the shared completed count exactly once.
C1_CountedExactlyOnce ==
  \A r \in Runs : \A i \in Hosts(r) :
    tasks[r].pc[i] = "done" => tasks[r].incs[i] = 1

\* C2: the completed-host counter never exceeds the total host count of the
\* current run.
C2_CompletedAtMostTotal == current_scan_count <= total_scan_count

\* C3: the visible result set holds no result produced by a probe of an
\* earlier run.
C3_NoStaleResult ==
  \A k \in 1 .. Len(results) : results[k].run = CurRun

\* C4: the visible result set never holds two entries with the same IP.
C4_UniqueIps ==
  \A k \in 1 .. Len(results) : \A l \in 1 .. Len(results) :
    results[k].ip = results[l].ip => k = l

\* C5: the visible result sequence is in ascending numeric IP order after
\* every tick and every start (it is only written by those two).
C5_ResultsSorted ==
  \A k \in 1 .. Len(results) : \A l \in 1 .. Len(results) :
    k < l => results[k].ip <= results[l].ip

\* C5 witness: a tick has merged two results of different hosts.
C5_Witness ==
  /\ ticked
  /\ Len(results) >= 2
  /\ results[1].ip < results[Len(results)].ip

\* C6: a start on a malformed CIDR leaves a total of zero and an empty
\* stream, and the next tick ends the run as Done with no results.
CurMalformed == tasks # <<>> /\ ~NetOf(CurRun).ok

C6_MalformedRunEndsDone ==
  CurMalformed =>
    /\ total_scan_count = 0
    /\ tasks[CurRun].ips = <<>>
    /\ ticked => (status = "Done" /\ results = <<>>)

\* C7: right after a tick of a started scanner, completed = total implies
\* that the status is Done.
C7_CompleteImpliesDone ==
  (ticked /\ status # "Idle" /\ current_scan_count = total_scan_count)
    => status = "Done"

\* C8: for every prefix length below IPV4_BITS - 1 the total is
\* 2^(IPV4_BITS - p) - 2 and the stream gets the block minus exactly its
\* network and broadcast addresses.
C8_HostsExcludeNetworkAndBroadcast ==
  \A r \in Runs :
    (NetOf(r).ok /\ NetOf(r).prefix < IPV4_BITS - 1) =>
      /\ r = CurRun => total_scan_count = Pow2(IPV4_BITS - NetOf(r).prefix) - 2
      /\ Len(tasks[r].ips) = Pow2(IPV4_BITS - NetOf(r).prefix) - 2
      /\ IpSet(r) = (Network(NetOf(r)) .. Broadcast(NetOf(r)))
                      \ {Network(NetOf(r)), Broadcast(NetOf(r))}

\* C9: for the two longest prefix lengths the total is 2^(IPV4_BITS - p) and
\* every address of the block goes to the stream.
C9_PointToPointAndHostBlocks ==
  \A r \in Runs :
    (NetOf(r).ok /\ NetOf(r).prefix >= IPV4_BITS - 1) =>
      /\ r = CurRun => total_scan_count = Pow2(IPV4_BITS - NetOf(r).prefix)
      /\ Len(tasks[r].ips) = Pow2(IPV4_BITS - NetOf(r).prefix)
      /\ IpSet(r) = Network(NetOf(r)) .. Broadcast(NetOf(r))

\* C9 witness: a point-to-point block typed with its upper address.
C9_Witness ==
  /\ tasks # <<>>
  /\ tasks[1].cidr = [addr |-> 3, prefix |-> IPV4_BITS - 1]
  /\ total_scan_count = 2
  /\ IpSet(1) = {2, 3}

\* C10: once stop() was called on a run, no task of that run starts the
\* probe of a further host.
C10_NoNewProbeAfterStop ==
  [][\A r \in stopped : \A i \in Hosts(r) :
       tasks[r].pc[i] = "new" => tasks'[r].pc[i] \in {"new", "done"}]_vars

IsStart == \E c \in Concurrencies : StartScan(c)

C12_StatusTransitions ==
  [][\/ status' = status
     \/ status = "Idle" /\ status' = "Scanning" /\ IsStart
     \/ status = "Scanning" /\ status' = "Done" /\ (Update \/ Stop)
     \/ status = "Done" /\ status' = "Scanning" /\ IsStart]_vars

\* C12 witness: a fresh start after a run that ended by a tick.
C12_Witness ==
  /\ Len(tasks) = 2
  /\ stopped = {}
  /\ status = "Scanning"

\* C13: 's' on a run that is already Done leaves the results, the status,
\* the completed count and the cancellation flag as they were.
C13_StopOnDoneChangesNothing ==
  [][(Stop /\ status = "Done") =>
       UNCHANGED <<results, status, current_scan_count, abort_flag,
                   total_scan_count, chan, tasks>>]_vars

\* C13 witness: 's' was pressed on a run that a tick had ended, with
\* results collected and the flag still clear.
C13_Witness ==
  /\ idle_stop
  /\ status = "Done"
  /\ ~abort_flag
  /\ results # <<>>

\* C14: a scan of a two-host block with concurrency 1 in which no host
\* answers: once both probes have ended and a tick has run, the status is
\* Done, the result set is empty and the completed count is 2.
TwoHostBlock == [addr |-> 0, prefix |-> IPV4_BITS - 2]

ScenarioEnded ==
  /\ tasks # <<>>
  /\ tasks[1].cidr = TwoHostBlock
  /\ tasks[1].concurrency = 1
  /\ \A i \in Hosts(1) : tasks[1].pc[i] = "done"
  /\ ticked

C14_TwoUnreachableHosts ==
  ScenarioEnded =>
    /\ status = "Done"
    /\ results = <<>>
    /\ current_scan_count = 2

C14_Witness == ScenarioEnded /\ Len(tasks[1].ips) = 2

\* ------------------------------------------------------------------------
\* Properties of the ping tool
\* ------------------------------------------------------------------------

\* The loops with an echo request on the wire.
Outstanding == {l \in Loops : ping_loops[l].pc = "ping"}

\* The sequence numbers of the Result and Timeout events of q, in order.
RECURSIVE SeqsOf(_)
SeqsOf(q) ==
  IF q = <<>> THEN <<>>
  ELSE IF Head(q).kind = "Error" THEN SeqsOf(Tail(q))
  ELSE <<Head(q).seq>> \o SeqsOf(Tail(q))

StrictlyIncreasing(q) == \A k \in 1 .. Len(q) - 1 : q[k] < q[k + 1]

\* C15: at most one echo request is outstanding at any time, and the events
\* one draining step applies carry strictly increasing sequence numbers that
\* continue those already applied in the session (sent is the last applied
\* sequence number plus one, 0 at the start of the session).
C15_OrderedOneOutstanding ==
  [][/\ Cardinality(Outstanding') <= 1
     /\ PingUpdate =>
          StrictlyIncreasing(<<ping_stats.sent - 1>> \o SeqsOf(ping_chan))]_vars

\* C16: once stop() was called on a session, the probing loop of that
\* session eventually ends, whatever follows.
C16_StoppedLoopTerminates ==
  \A l \in 1 .. MaxSessions :
    (l \in ping_stopped) ~> (l \in Loops /\ ping_loops[l].pc = "done")

\* C17: once stop() was called on a session, the loop of that session sends
\* no further echo request.
C17_NoEchoAfterStop ==
  [][\A l \in Loops :
       l \in ping_stopped => ping_loops'[l].requests = ping_loops[l].requests]_vars

\* C18: start() on a running tool changes nothing: statistics (with history
\* and log), flag, running state, queue and the probing loops stay as they
\* are, so no second loop is spawned.
C18_StartWhileRunningIsNoOp ==
  [][(PingStart /\ ping_running) =>
       UNCHANGED <<ping_stats, ping_abort, ping_running, ping_chan, ping_loops>>]_vars

\* C18 witness: start() was just called on a running session whose
\* statistics already hold applied events.
C18_Witness ==
  /\ start_ignored
  /\ ping_running
  /\ ping_stats.sent > 0
  /\ Len(ping_loops) = 1

\* C19: whenever the tool goes from Stopped to Running, sent, received, total
\* latency and jitter sum are 0, min, max, last and previous latency are
\* unset, and the history and log rings are empty.
C19_StatsZeroAtStart ==
  [][(~ping_running /\ ping_running') =>
       /\ ping_stats'.sent = 0
       /\ ping_stats'.recv = 0
       /\ ping_stats'.total_latency = 0
       /\ ping_stats'.jitter_sum = 0
       /\ ping_stats'.min_latency = None
       /\ ping_stats'.max_latency = None
       /\ ping_stats'.last_latency = None
       /\ ping_stats'.prev_latency = None
       /\ ping_stats'.history = <<>>
       /\ ping_stats'.logs = <<>>]_vars

\* C19 witness: a second session has just started, with zero statistics,
\* after a reply of the first session had been applied.
C19_Witness ==
  /\ ping_running
  /\ Len(ping_loops) = 2
  /\ ping_loops[2].pc = "setup"
  /\ ping_loops[1].events > 0
  /\ ping_chan = <<>>
  /\ ping_stats = PingStatsDefault

\* The echo of loop l came back in this step, ending the probe of the iteration.
EchoReturned(l) == ping_loops[l].pc = "ping" /\ ping_loops'[l].pc # "ping"

\* The events this step appended to the queue.
Sent == SubSeq(ping_chan', Len(ping_chan) + 1, Len(ping_chan'))

\* The event of an iteration of loop l: one Result or Timeout whose seq is the
\* number of events the loop emitted before it.
OneEventInOrder(l) ==
  /\ Len(Sent) = 1
  /\ Sent[1].kind \in {"Result", "Timeout"}
  /\ Sent[1].loop = l
  /\ Sent[1].seq = ping_loops[l].events

\* Loop l issues its echo requests with seq 0, 1, 2, ...: one step of seq
\* per iteration.
SeqCountsIterations(l) ==
  ping_loops'[l].requests # ping_loops[l].requests =>
    ping_loops[l].seq = ping_loops[l].requests

RECURSIVE RecvLats(_)
RecvLats(q) ==
  IF q = <<>> THEN <<>>
  ELSE IF Head(q).kind = "Result" THEN <<Head(q).latency>> \o RecvLats(Tail(q))
  ELSE RecvLats(Tail(q))

\* The Result and Timeout events of q, in order.
RECURSIVE Probed(_)
Probed(q) ==
  IF q = <<>> THEN <<>>
  ELSE IF Head(q).kind = "Error" THEN Probed(Tail(q))
  ELSE <<Head(q)>> \o Probed(Tail(q))

RECURSIVE SumOf(_)
SumOf(q) == IF q = <<>> THEN 0 ELSE Head(q) + SumOf(Tail(q))

MinOf(q) == CHOOSE m \in {q[k] : k \in 1 .. Len(q)} : \A k \in 1 .. Len(q) : m <= q[k]

MaxOf(q) == CHOOSE m \in {q[k] : k \in 1 .. Len(q)} : \A k \in 1 .. Len(q) : m >= q[k]

\* C21: over the events drained since the start of the session, received
\* counts the Result events, sent is seq+1 of the last Result or Timeout,
\* min and max are the least and the greatest latency received (unset before
\* the first reply), the total is the sum of the latencies received, and last
\* and previous latency are the latency of the last Result.
C21_ResultStatistics ==
  LET r == RecvLats(applied)
      p == Probed(applied)
  IN /\ ping_stats.recv = Len(r)
     /\ ping_stats.sent = IF p = <<>> THEN 0 ELSE p[Len(p)].seq + 1
     /\ ping_stats.min_latency = IF r = <<>> THEN None ELSE Some(MinOf(r))
     /\ ping_stats.max_latency = IF r = <<>> THEN None ELSE Some(MaxOf(r))
     /\ ping_stats.total_latency = SumOf(r)
     /\ ping_stats.last_latency = IF r = <<>> THEN None ELSE Some(r[Len(r)])
     /\ ping_stats.prev_latency = ping_stats.last_latency

\* C21 witness: three replies were drained, the second lower than the first
\* and the third in between.
C21_Witness ==
  /\ RecvLats(applied) = <<120, 90, 100>>
  /\ ping_stats.recv = 3
  /\ ping_stats.sent = 3

\* draw_dashboard: the average jitter shown in the statistics grid.
AvgJitter(st) == IF st.recv > 1 THEN st.jitter_sum \div (st.recv - 1) ELSE 0

Abs(x) == IF x < 0 THEN -x ELSE x

\* The sum of |q[k+1] - q[k]| over the successive elements of q.
RECURSIVE SumAbsDiffs(_)
SumAbsDiffs(q) ==
  IF Len(q) < 2 THEN 0
  ELSE Abs(q[2] - q[1]) + SumAbsDiffs(Tail(q))

\* C22: the jitter sum is the sum of the absolute differences between each
\* latency received and the one received before it; the average jitter shown
\* is that sum divided (integer division) by received - 1, and 0 when at most
\* one reply was received; after replies of 100, 120 and 90 ms the sum is 50
\* and the average 25.
C22_Jitter ==
  LET r == RecvLats(applied)
  IN /\ ping_stats.jitter_sum = SumAbsDiffs(r)
     /\ AvgJitter(ping_stats) =
          IF Len(r) <= 1 THEN 0 ELSE SumAbsDiffs(r) \div (Len(r) - 1)
     /\ r = <<100, 120, 90>> =>
          ping_stats.jitter_sum = 50 /\ AvgJitter(ping_stats) = 25

\* C22 witness: replies of 100, 120 and 90 ms were drained, in that order.
C22_Witness ==
  /\ RecvLats(applied) = <<100, 120, 90>>
  /\ ping_stats.recv = 3
  /\ ping_stats.jitter_sum = 50

\* The last n elements of q (all of q when it has fewer).
LastN(q, n) == IF Len(q) <= n THEN q ELSE SubSeq(q, Len(q) - n + 1, Len(q))

OnlyTimeouts(q) == q # <<>> /\ \A k \in 1 .. Len(q) : q[k].kind = "Timeout"

\* C23: an update that drains Timeout events sets sent to seq+1 of the last
\* one, pushes one 0 per event into the history ring and appends one log line
\* per event, and leaves received, min, max and total latency, the jitter sum
\* and the last and previous latency as they were.
C23_TimeoutFrame ==
  [][(OnlyTimeouts(ping_chan) /\ ping_chan' = <<>> /\ applied' = applied \o ping_chan)
     => /\ ping_stats'.sent = ping_chan[Len(ping_chan)].seq + 1
        /\ ping_stats'.history =
             LastN(ping_stats.history \o [k \in 1 .. Len(ping_chan) |-> 0],
                   HISTORY_CAP)
        /\ ping_stats'.logs =
             LastN(ping_stats.logs \o
                     [k \in 1 .. Len(ping_chan) |-> TimeoutLine(ping_chan[k])],
                   LOG_CAP)
        /\ ping_stats'.recv = ping_stats.recv
        /\ ping_stats'.min_latency = ping_stats.min_latency
        /\ ping_stats'.max_latency = ping_stats.max_latency
        /\ ping_stats'.total_latency = ping_stats.total_latency
        /\ ping_stats'.jitter_sum = ping_stats.jitter_sum
        /\ ping_stats'.last_latency = ping_stats.last_latency
        /\ ping_stats'.prev_latency = ping_stats.prev_latency]_vars

\* C23 witness: a reply and then a timeout were drained; the reply is still
\* the only one counted and the history ends with the sentinel.
C23_Witness ==
  /\ Len(applied) = 2
  /\ applied[1].kind = "Result"
  /\ applied[2].kind = "Timeout"
  /\ ping_stats.recv = 1
  /\ ping_stats.sent = 2
  /\ ping_stats.history = <<applied[1].latency, 0>>
  /\ ping_stats.logs = <<ResultLine(applied[1]), TimeoutLine(applied[2])>>

\* sent - recv on u64, as the release build computes it (wrapping).
U64Sub(a, b) == IF a >= b THEN a - b ELSE a - b + U64_MOD

\* n / d rounded to the nearest integer, ties to even: the rounding of "{:.1}".
RoundHalfEven(n, d) ==
  LET q == n \div d
      r == n % d
  IN IF 2 * r > d \/ (2 * r = d /\ q % 2 = 1) THEN q + 1 ELSE q

\* Mutation: the percentage of the requests that were answered.
LossTenths_OfReceived(st) ==
  IF st.sent > 0 THEN RoundHalfEven(st.recv * 1000, st.sent) ELSE 0

\* draw_dashboard: the loss percentage as the statistics grid prints it with
\* "{:.1}", in tenths of a percent. The quotient is taken exactly; the
\* rounding error of the f64 division and product (below 1e-13) is left out.
LossTenths(st) ==
  IF st.sent > 0 THEN RoundHalfEven(U64Sub(st.sent, st.recv) * 1000, st.sent) ELSE 0

\* C24: the loss percentage is (sent - received) / sent * 100 when sent > 0
\* (the printed tenth is the one nearest to that quotient) and 0 when sent = 0;
\* for sent = 10 and received = 7 it is 30.0.
C24_LossPercentage ==
  /\ ping_stats.sent = 0 => LossTenths(ping_stats) = 0
  /\ ping_stats.sent > 0 =>
       2 * Abs(LossTenths(ping_stats) * ping_stats.sent
               - (ping_stats.sent - ping_stats.recv) * 1000) <= ping_stats.sent
  /\ LossTenths([PingStatsDefault EXCEPT !.sent = 10, !.recv = 7]) = 300

\* C24 witness: of three requests two were answered; the loss shown is 33.3.
C24_Witness ==
  /\ ping_stats.sent = 3
  /\ ping_stats.recv = 2
  /\ LossTenths(ping_stats) = 333

HasError(q) == \E k \in 1 .. Len(q) : q[k].kind = "Error"

\* The events of loop l in q, in order.
RECURSIVE EventsOf(_, _)
EventsOf(l, q) ==
  IF q = <<>> THEN <<>>
  ELSE IF Head(q).loop = l THEN <<Head(q)>> \o EventsOf(l, Tail(q))
  ELSE EventsOf(l, Tail(q))

\* C25: a loop that fails fatally sends one Error event and is finished; a
\* finished loop sends nothing more and does not start over; an update that
\* drains an Error event leaves the tool Stopped with the stop flag set, and
\* when the Error is all it drains it changes nothing of the statistics but
\* the log, which gets one line; start() on a tool stopped this way begins a
\* new session.
C25_FatalFailure ==
  [][/\ \A l \in Loops :
          HasError(EventsOf(l, Sent))
            => Len(Sent) = 1 /\ ping_loops'[l].pc = "done"
     /\ \A l \in Loops :
          ping_loops[l].pc = "done"
            => ping_loops'[l] = ping_loops[l] /\ EventsOf(l, Sent) = <<>>
     /\ (HasError(ping_chan) /\ ping_chan' = <<>> /\ applied' = applied \o ping_chan)
          => /\ ~ping_running'
             /\ ping_abort'
             /\ Len(ping_chan) = 1
                  => ping_stats' =
                       [ping_stats EXCEPT
                          !.logs = LastN(ping_stats.logs \o <<ErrorLine(ping_chan[1])>>,
                                         LOG_CAP)]
     /\ (HasError(applied) /\ ~ping_running /\ PingStart)
          => /\ ping_running'
             /\ ~ping_abort'
             /\ ping_stats' = PingStatsDefault
             /\ ping_loops' = Append(ping_loops, NewLoop)]_vars

\* C25 witness: the first session failed in its setup; its Error event was
\* drained, the log holds its line and the tool is Stopped.
C25_Witness ==
  /\ Len(ping_loops) = 1
  /\ ping_loops[1].pc = "done"
  /\ ping_loops[1].requests = 0
  /\ applied = <<ErrorEvent(1, "setup")>>
  /\ ping_stats.logs = <<ErrorLine(ErrorEvent(1, "setup"))>>
  /\ ~ping_running
  /\ ping_abort
  /\ ping_chan = <<>>

\* The values update pushes into the history ring for the events of q, in
\* order: the latency of a Result, 0 for a Timeout, nothing for an Error.
RECURSIVE Pushed(_)
Pushed(q) ==
  IF q = <<>> THEN <<>>
  ELSE IF Head(q).kind = "Result" THEN <<Head(q).latency>> \o Pushed(Tail(q))
  ELSE IF Head(q).kind = "Timeout" THEN <<0>> \o Pushed(Tail(q))
  ELSE Pushed(Tail(q))

\* The ring after pushing the values of vals, in order, with capacity cap
\* (the first half of vals, then, on the ring r this gives, the second half).
RECURSIVE PushAll(_, _, _)
PushAll(q, vals, cap) ==
  IF Len(vals) = 0 THEN q
  ELSE IF Len(vals) = 1 THEN PushRing(q, vals[1], cap)
  ELSE LET h == Len(vals) \div 2
           r == PushAll(q, SubSeq(vals, 1, h), cap)
       IN IF Len(r) > cap THEN r ELSE PushAll(r, SubSeq(vals, h + 1, Len(vals)), cap)

\* The history after samples 1..105 were pushed into an empty ring of the
\* capacity of the code.
RingAfter105 == PushAll(<<>>, [k \in 1 .. 105 |-> k], 100)

\* C26: the history never holds more entries than its capacity and holds the
\* most recent min(n, capacity) of the n values pushed since the start, oldest
\* first; with the capacity of 100 of the code, 105 pushes leave samples
\* 6..105 oldest-first.
C26_HistoryRing ==
  /\ Len(ping_stats.history) <= HISTORY_CAP
  /\ ping_stats.history = LastN(Pushed(applied), HISTORY_CAP)
  /\ RingAfter105 = [k \in 1 .. 100 |-> k + 5]

\* C26 witness: one value more than the capacity was pushed and the first
\* one, a reply of 90 ms, is no longer in the ring.
C26_Witness ==
  /\ Len(Pushed(applied)) = HISTORY_CAP + 1
  /\ Pushed(applied)[1] = 90
  /\ ping_stats.history = Tail(Pushed(applied))
  /\ \A k \in 1 .. Len(ping_stats.history) : ping_stats.history[k] # 90

\* ------------------------------------------------------------------------
\* The configuration panel of the ping tool
\* ------------------------------------------------------------------------

\* The number of adjustments explored on each side of a limit or of a default.
MaxAdjust == 2

\* A key of the configuration panel leaves the rest of the tool as it is.
ConfigKey(cfg, sel) ==
  /\ ping_config' = cfg
  /\ config_selected' = sel
  /\ start_ignored' = FALSE
  /\ UNCHANGED <<platform, ping_running, ping_abort, ping_chan, ping_stats,
                 ping_loops, ping_stopped, applied>>

\* next_config: Down or 'j'
NextConfig == ConfigKey(ping_config, IF config_selected >= 4 - 1 THEN 0 ELSE config_selected + 1)

\* prev_config: Up or 'k'
PrevConfig == ConfigKey(ping_config, IF config_selected = 0 THEN 4 - 1 ELSE config_selected - 1)

\* Mutation: the new value is stored as computed.
Clamp_Off(v, lo, hi) == v

\* i64::clamp
Clamp(v, lo, hi) == IF v < lo THEN lo ELSE IF v > hi THEN hi ELSE v

\* adjust_numeric_config(dir): Left or 'h' (dir = -1), Right or 'l' (dir = 1)
AdjustNumericConfig(dir) ==
  IF ping_running
  THEN ConfigKey(ping_config, config_selected)
  ELSE CASE config_selected = 1 ->
              ConfigKey([ping_config EXCEPT !.interval_ms =
                           Clamp(ping_config.interval_ms + dir * 100, 100, 10000)],
                        config_selected)
         [] config_selected = 2 ->
              ConfigKey([ping_config EXCEPT !.timeout_ms =
                           Clamp(ping_config.timeout_ms + dir * 100, 100, 10000)],
                        config_selected)
         [] config_selected = 3 ->
              ConfigKey([ping_config EXCEPT !.packet_size =
                           Clamp(ping_config.packet_size + dir * 8, 0, 65500)],
                        config_selected)
         [] OTHER -> ConfigKey(ping_config, config_selected)

\* Configurations adjustments reach from the default, next to the limits.
ConfigsNearLimits ==
  [target : {DefaultTarget}, interval_ms : {200, 1000, 9900},
   timeout_ms : {200, 2000, 9900}, packet_size : {8, 32, 65496}]

\* v is within MaxAdjust steps of one of the values of anchors.
Near(v, anchors, step) == \E a \in anchors : Abs(v - a) <= MaxAdjust * step

\* The selected field is within the range of values explored.
SelectedNear ==
  CASE config_selected = 1 -> Near(ping_config.interval_ms, {100, 1000, 10000}, 100)
    [] config_selected = 2 -> Near(ping_config.timeout_ms, {100, 2000, 10000}, 100)
    [] config_selected = 3 -> Near(ping_config.packet_size, {0, 32, 65500}, 8)
    [] OTHER -> TRUE

InitConfig ==
  /\ ScanInit(CHOOSE c \in ScanCidrs : c # Malformed)
  /\ platform = "unix"
  /\ \E cfg \in ConfigsNearLimits : PingInitWith(cfg)
  /\ TrafficInit
  /\ PanelsInit

\* The keys of the ping tool: space on the main area, and the keys of the
\* configuration panel.
NextConfigKeys ==
  \/ (ping_running \/ ping_loops = <<>>) /\ PingOnKey /\ ScanIdle /\ TrafficIdle /\ PanelsIdle
  \/ NextConfig /\ ScanIdle /\ TrafficIdle /\ PanelsIdle
  \/ PrevConfig /\ ScanIdle /\ TrafficIdle /\ PanelsIdle
  \/ \E dir \in {-1, 1} : SelectedNear /\ AdjustNumericConfig(dir) /\ ScanIdle /\ TrafficIdle /\ PanelsIdle

SpecConfig == InitConfig /\ [][NextConfigKeys]_vars

\* C27: the interval and the timeout are within [100, 10000] ms and the
\* packet size within [0, 65500], whatever adjustments were made.
C27_ConfigWithinLimits ==
  /\ ping_config.interval_ms \in 100 .. 10000
  /\ ping_config.timeout_ms \in 100 .. 10000
  /\ ping_config.packet_size \in 0 .. 65500

\* C27 witness: adjustments took the interval to its lower limit, the timeout
\* to its upper limit and the packet size from 65496 to the upper limit, which
\* only the clamp gives.
C27_Witness ==
  /\ ping_config.interval_ms = 100
  /\ ping_config.timeout_ms = 10000
  /\ ping_config.packet_size = 65500

\* ------------------------------------------------------------------------
\* The traffic samplers
\* ------------------------------------------------------------------------

\* The time between two updates, in ms: at and on both sides of the
\* thresholds of 0.1 s and 0.5 s.
Elapsed == {100, 150, 500, 600}

\* duration > 0.1 (traffic table, adapter list), duration > 0.5 (dashboard)
Threshold == IF sampler = "dashboard" THEN 500 ELSE 100

\* The adapters an update samples.
Tracked == IF sampler = "dashboard" THEN {ActiveInterface} ELSE Adapters

\* Mutation: the difference is 0 when the counter went down.
CounterSub_Saturating(cur, prev) == IF cur > prev THEN cur - prev ELSE 0

\* cur - prev on u64 where the overflow is not checked: it wraps.
CounterSub(cur, prev) == (cur - prev) % COUNTER_MOD

\* (delta as f64 / duration) as u64, duration = ms / 1000 s: the quotient is
\* truncated and the cast saturates at the largest u64.
Rate(delta, ms) ==
  LET r == (delta * 1000) \div ms
  IN IF r > COUNTER_MOD - 1 THEN COUNTER_MOD - 1 ELSE r

Snapshot(rx, tx, now, rs, ts) ==
  [total_rx |-> rx, total_tx |-> tx, last_update |-> now, rx_speed |-> rs,
   tx_speed |-> ts]

\* Mutation: the rates are recomputed at every update after the first.
Accepts_Always(h, now) == h # None /\ now - h[1].last_update > 0

\* The update recomputes the rates of the entry h at time now.
Accepts(h, now) == h # None /\ now - h[1].last_update > Threshold

\* One adapter in the loop of update: the entry h of the adapter after the
\* counters cur were read at time now.
SampleAdapter(h, cur, now) ==
  IF h = None THEN Some(Snapshot(cur.rx, cur.tx, now, 0, 0))
  ELSE IF Accepts(h, now)
  THEN Some(Snapshot(cur.rx, cur.tx, now,
                     Rate(CounterSub(cur.rx, h[1].total_rx), now - h[1].last_update),
                     Rate(CounterSub(cur.tx, h[1].total_tx), now - h[1].last_update)))
  ELSE h

\* A subtraction of the update overflows for this adapter.
Overflows(h, cur, now) ==
  Accepts(h, now) /\ (cur.rx < h[1].total_rx \/ cur.tx < h[1].total_tx)

\* Mutation: the session counters are plain differences.
SessionSub_Wrapping(cur, init) == (cur - init) % COUNTER_MOD

\* u64::saturating_sub
SessionSub(cur, init) == IF cur > init THEN cur - init ELSE 0

\* initial_stats.get(name).unwrap_or(&(0, 0))
Baseline(a) ==
  IF a \in DOMAIN initial_stats THEN initial_stats[a] ELSE [rx |-> 0, tx |-> 0]

\* The DisplayItem the traffic table builds for adapter a: the rates the
\* update used or kept, and the session counters.
DisplayItem(a, h, cur) ==
  [rx_speed |-> h[1].rx_speed, tx_speed |-> h[1].tx_speed,
   session_rx |-> SessionSub(cur.rx, Baseline(a).rx),
   session_tx |-> SessionSub(cur.tx, Baseline(a).tx),
   total_rx |-> cur.rx, total_tx |-> cur.tx]

\* update of the module `sampler`, dt ms after the last one, when the refresh
\* reads the counters cur. A subtraction that overflows panics where overflow
\* checks are compiled in and wraps where they are not.
SamplerUpdate(dt, cur) ==
  LET now == clock + dt
      after == [a \in Adapters |->
                  IF a \in Tracked THEN SampleAdapter(traffic_history[a], cur[a], now)
                  ELSE traffic_history[a]]
  IN /\ ~sampler_panicked
     /\ clock' = now
     /\ networks' = cur
     /\ \/ /\ traffic_history' = after
           /\ display_items' =
                IF sampler = "traffic"
                THEN [a \in Adapters |-> DisplayItem(a, after[a], cur[a])]
                ELSE display_items
           /\ sampler_panicked' = FALSE
        \/ /\ \E a \in Tracked : Overflows(traffic_history[a], cur[a], now)
           /\ sampler_panicked' = TRUE
           /\ UNCHANGED <<traffic_history, display_items>>
     /\ UNCHANGED <<sampler, initial_stats>>

InitTraffic ==
  /\ ScanInit(CHOOSE c \in ScanCidrs : c # Malformed)
  /\ platform = "unix"
  /\ PingInit
  /\ \E m \in Samplers : \E c \in Readings : TrafficInitWith(m, c)
  /\ PanelsInit

NextTraffic ==
  \E dt \in Elapsed : \E cur \in Readings :
    clock < MaxClock /\ SamplerUpdate(dt, cur) /\ ScanIdle /\ PingIdle /\ PanelsIdle

SpecTraffic == InitTraffic /\ [][NextTraffic]_vars

\* C28: when a counter read by an update is lower than at the previous
\* sample of the adapter, the update does not fail and the rate of that
\* direction is 0 afterwards, or the entry of the adapter is left as it was.
C28_DecreaseGivesNoWrappedRate ==
  [][\A a \in Tracked :
       traffic_history[a] # None
         => /\ networks'[a].rx < traffic_history[a][1].total_rx
                 => /\ ~sampler_panicked'
                    /\ \/ traffic_history'[a] = traffic_history[a]
                       \/ traffic_history'[a][1].rx_speed = 0
            /\ networks'[a].tx < traffic_history[a][1].total_tx
                 => /\ ~sampler_panicked'
                    /\ \/ traffic_history'[a] = traffic_history[a]
                       \/ traffic_history'[a][1].tx_speed = 0]_vars

\* C29: an update that runs when the time since the last accepted sample of
\* an adapter does not exceed the threshold leaves the entry of the adapter
\* (rates, baseline counters, timestamp) as it was and reports the rates it
\* holds; an entry is recomputed only when the time exceeds the threshold.
C29_DebounceKeepsSample ==
  [][\A a \in Tracked :
       traffic_history[a] # None
         => /\ clock' - traffic_history[a][1].last_update <= Threshold
                 => /\ traffic_history'[a] = traffic_history[a]
                    /\ sampler = "traffic"
                         => /\ display_items'[a].rx_speed = traffic_history[a][1].rx_speed
                            /\ display_items'[a].tx_speed = traffic_history[a][1].tx_speed
            /\ traffic_history'[a] # traffic_history[a]
                 => clock' - traffic_history[a][1].last_update > Threshold]_vars

\* C29 witness: the last update came within the threshold of an accepted
\* sample; the counter has moved since, and the entry still holds the
\* baseline and the rate of that sample.
C29_Witness ==
  \E a \in Tracked :
    /\ traffic_history[a] # None
    /\ ~sampler_panicked
    /\ traffic_history[a][1].last_update < clock
    /\ clock - traffic_history[a][1].last_update <= Threshold
    /\ networks[a].rx # traffic_history[a][1].total_rx
    /\ traffic_history[a][1].rx_speed = 1333

\* C30: in the traffic table the session counters of every adapter are the
\* current counters minus the counters recorded at startup, and 0 where the
\* current counter is below the recorded one; they are never negative and
\* never above the current counter.
C30_SessionCounters ==
  (sampler = "traffic" /\ ~sampler_panicked)
    => \A a \in DOMAIN display_items :
         LET item == display_items[a]
             cur == networks[a]
             init == initial_stats[a]
         IN /\ item.session_rx = IF cur.rx < init.rx THEN 0 ELSE cur.rx - init.rx
            /\ item.session_tx = IF cur.tx < init.tx THEN 0 ELSE cur.tx - init.tx
            /\ item.session_rx \in 0 .. cur.rx
            /\ item.session_tx \in 0 .. cur.tx

\* C30 witness: an adapter received less than its startup counter says and
\* transmitted 200 bytes more; its session counters are 0 and 200.
C30_Witness ==
  /\ sampler = "traffic"
  /\ ~sampler_panicked
  /\ \E a \in DOMAIN display_items :
       /\ networks[a].rx < initial_stats[a].rx
       /\ networks[a].tx = initial_stats[a].tx + 200
       /\ display_items[a].session_rx = 0
       /\ display_items[a].session_tx = 200

\* ------------------------------------------------------------------------
\* The adapter panel: AdapterModule's list and selection
\* ------------------------------------------------------------------------

\* The longest adapter list explored.
MaxInterfaces == 3

\* The lists net::get_interfaces can return: distinct adapter names.
InterfaceLists ==
  {l \in UNION {[1 .. n -> InterfaceNames] : n \in 0 .. MaxInterfaces} :
     \A i, j \in DOMAIN l : i # j => l[i] # l[j]}

\* on_key 'r' -> reload, when the OS lists the adapters list.
Reload(list) ==
  /\ interfaces' = list
  /\ adapter_selected' =
       IF adapter_selected # None
         THEN IF adapter_selected[1] >= Len(list)
                THEN Some(SaturatingSub(Len(list), 1))
                ELSE adapter_selected
         ELSE IF list # <<>> THEN Some(0) ELSE None
  /\ UNCHANGED <<settingsvars, dashvars>>

\* on_key Down / 'j' -> next
AdapterNext ==
  /\ IF interfaces = <<>>
       THEN UNCHANGED adapter_selected
       ELSE adapter_selected' =
              IF adapter_selected # None
                THEN IF adapter_selected[1] >= SaturatingSub(Len(interfaces), 1)
                       THEN Some(0)
                       ELSE Some(adapter_selected[1] + 1)
                ELSE Some(0)
  /\ UNCHANGED <<interfaces, settingsvars, dashvars>>

\* on_key Up / 'k' -> previous
AdapterPrevious ==
  /\ IF interfaces = <<>>
       THEN UNCHANGED adapter_selected
       ELSE adapter_selected' =
              IF adapter_selected # None
                THEN IF adapter_selected[1] = 0
                       THEN Some(SaturatingSub(Len(interfaces), 1))
                       ELSE Some(adapter_selected[1] - 1)
                ELSE Some(0)
  /\ UNCHANGED <<interfaces, settingsvars, dashvars>>

\* App::new on a Windows host with any adapter list.
InitAdapter ==
  /\ ScanInit(CHOOSE c \in ScanCidrs : c # Malformed)
  /\ platform = "windows"
  /\ PingInit
  /\ TrafficInit
  /\ \E ifs \in InterfaceLists : PanelsInitWith(ifs, 50, "zh-CN")

\* The keys of the adapter tab.
NextAdapter ==
  \/ \E list \in InterfaceLists : Reload(list) /\ ScanIdle /\ PingIdle /\ TrafficIdle
  \/ AdapterNext /\ ScanIdle /\ PingIdle /\ TrafficIdle
  \/ AdapterPrevious /\ ScanIdle /\ PingIdle /\ TrafficIdle

SpecAdapter == InitAdapter /\ [][NextAdapter]_vars

\* C31: the selection of the adapter list is either nothing or an index inside
\* the list, after every reload and also when the reloaded list is empty.
C31_SelectionInsideList ==
  adapter_selected # None => adapter_selected[1] < Len(interfaces)

\* ------------------------------------------------------------------------
\* One probe future of a scan
\* ------------------------------------------------------------------------

\* net::resolve_hostname as the reverse lookup of the explored network
\* answers it: the odd addresses have a name, the others have none.
ResolveHostname(ip) == IF ip % 2 = 1 THEN "host" ELSE NoHost

\* The ScanResults of host i of run r that were sent so far.
SentBy(r, i) ==
  SelectSeq(results \o chan,
            LAMBDA res : res.run = r /\ res.ip = tasks[r].ips[i])

\* A single scan with both outcomes of each resolution, 's' at any time.
NextProbe ==
  \/ \E c \in Concurrencies :
       Len(tasks) = 0 /\ StartScan(c) /\ PingIdle /\ TrafficIdle /\ PanelsIdle
  \/ Stop /\ idle_stop' = FALSE /\ PingIdle /\ TrafficIdle /\ PanelsIdle
  \/ Update /\ PingIdle /\ TrafficIdle /\ PanelsIdle
  \/ \E r \in Runs : Dispatch(r) /\ PingIdle /\ TrafficIdle /\ PanelsIdle
  \/ \E r \in Runs : \E i \in Hosts(r), f \in BOOLEAN :
       MacDone(r, i, f) /\ PingIdle /\ TrafficIdle /\ PanelsIdle
  \/ \E r \in Runs : \E i \in Hosts(r) :
       HostDone(r, i, ResolveHostname(tasks[r].ips[i]))
         /\ PingIdle /\ TrafficIdle /\ PanelsIdle
  \/ \E r \in Runs : \E i \in Hosts(r) :
       CountDone(r, i) /\ PingIdle /\ TrafficIdle /\ PanelsIdle

SpecProbe == Init /\ [][NextProbe]_vars

\* C32: while stop() has not been called, a probe whose reachability
\* resolution fails ends counted once with no ScanResult sent; a probe whose
\* reachability resolution succeeds sends exactly one ScanResult, with the
\* empty hostname when the address has no name, and is counted only after
\* that result was sent; a finished probe sends and counts nothing more.
C32_ProbeOutcome ==
  [][stopped' = {} =>
       \A r \in Runs : \A i \in Hosts(r) :
         LET pc == tasks[r].pc[i]
             ip == tasks[r].ips[i]
         IN /\ pc = "mac" /\ tasks'[r].pc[i] = "done" =>
                 /\ SentBy(r, i)' = <<>>
                 /\ tasks'[r].incs[i] = 1
            /\ pc = "mac" /\ tasks'[r].pc[i] = "host" =>
                 /\ SentBy(r, i)' = <<>>
                 /\ tasks'[r].incs[i] = 0
            /\ pc = "host" /\ tasks'[r].pc[i] # "host" =>
                 /\ tasks'[r].pc[i] = "count"
                 /\ tasks'[r].incs[i] = 0
                 /\ SentBy(r, i)' =
                      <<ScanResult(ip, IF ResolveHostname(ip) = NoHost
                                         THEN "" ELSE ResolveHostname(ip), r)>>
            /\ pc = "count" /\ tasks'[r].pc[i] # "count" =>
                 /\ tasks'[r].pc[i] = "done"
                 /\ tasks'[r].incs[i] = 1
                 /\ Len(SentBy(r, i)') = 1
            /\ pc = "done" =>
                 /\ tasks'[r].pc[i] = "done"
                 /\ tasks'[r].incs[i] = tasks[r].incs[i]
                 /\ SentBy(r, i)' = SentBy(r, i)]_vars

\* A run nobody stopped in which one host failed the reachability resolution
\* and was counted with nothing sent, and another answered, has no name and
\* was counted after its result with the empty hostname was sent.
C32_Witness ==
  /\ stopped = {}
  /\ \E r \in Runs : \E i, j \in Hosts(r) :
       /\ tasks[r].pc[i] = "done" /\ tasks[r].incs[i] = 1
       /\ SentBy(r, i) = <<>>
       /\ tasks[r].pc[j] = "done" /\ tasks[r].incs[j] = 1
       /\ Len(SentBy(r, j)) = 1
       /\ SentBy(r, j)[1].hostname = ""
       /\ ResolveHostname(tasks[r].ips[j]) = NoHost

\* ------------------------------------------------------------------------
\* The settings panel and the persisted configuration
\* ------------------------------------------------------------------------

\* The width of i32, scaled down.
I32_BITS == 16

\* The fetch_public_ip calls explored.
MaxFetches == 3

\* `v as i32` of a usize: the low bits, read as a signed number.
AsI32(v) ==
  LET m == v % Pow2(I32_BITS)
  IN IF m >= Pow2(I32_BITS - 1) THEN m - Pow2(I32_BITS) ELSE m

\* The scan_concurrency values a config.json can hold when Config::load
\* reads it: any usize that serde_json parses. 50 is Config::default.
LoadedConcurrencies == {0, 5, 10, 50, 490, 500, 505, 40000, 70000}

\* Language::next
LanguageNext(lang) == IF lang = "en-US" THEN "zh-CN" ELSE "en-US"

\* Dashboard::fetch_public_ip(lang_code)
FetchPublicIp(lang_code) ==
  /\ public_info' = Loading
  /\ lookups' = lookups \cup {Lookup(fetches + 1, lang_code)}
  /\ fetches' = fetches + 1
  /\ UNCHANGED dash_chan

\* SettingsModule on_key Down / 'j' -> next (two items)
SettingsNext ==
  /\ settings_selected' = IF settings_selected >= 2 - 1 THEN 0 ELSE settings_selected + 1
  /\ UNCHANGED <<scan_concurrency, language, adaptervars, dashvars>>

\* SettingsModule on_key Up / 'k' -> previous
SettingsPrevious ==
  /\ settings_selected' = IF settings_selected = 0 THEN 2 - 1 ELSE settings_selected - 1
  /\ UNCHANGED <<scan_concurrency, language, adaptervars, dashvars>>

\* The two comparisons of change_value: below 10 gives 10, above 500 gives 500.
Limit(current) ==
  IF current < 10 THEN 10 ELSE IF current > 500 THEN 500 ELSE current

\* SettingsModule on_key Left / Right / Enter -> change_value(dir)
ChangeValue(dir) ==
  /\ IF settings_selected = 0
       THEN /\ language' = LanguageNext(language)
            /\ FetchPublicIp(LanguageNext(language))
            /\ UNCHANGED scan_concurrency
       ELSE /\ scan_concurrency' = Limit(AsI32(scan_concurrency) + dir * 10)
            /\ UNCHANGED <<language, dashvars>>
  /\ UNCHANGED <<settings_selected, adaptervars>>

\* App::new when Config::load found any scan_concurrency in config.json.
InitSettings ==
  /\ \E c \in ScanCidrs : ScanInit(c)
  /\ platform = "unix"
  /\ PingInit
  /\ TrafficInit
  /\ \E conc \in LoadedConcurrencies : PanelsInitWith(<<>>, conc, "zh-CN")

\* The keys of the settings tab, and the first Enter on the scanner tab:
\* App::on_key hands config.scan_concurrency to the scanner.
NextSettings ==
  \/ SettingsNext /\ ScanIdle /\ PingIdle /\ TrafficIdle
  \/ SettingsPrevious /\ ScanIdle /\ PingIdle /\ TrafficIdle
  \/ \E dir \in {-1, 1} :
       /\ settings_selected = 0 => fetches < MaxFetches
       /\ ChangeValue(dir) /\ ScanIdle /\ PingIdle /\ TrafficIdle
  \/ Len(tasks) = 0 /\ StartScan(scan_concurrency) /\ PingIdle /\ TrafficIdle /\ PanelsIdle

SpecSettings == InitSettings /\ [][NextSettings]_vars

\* C33: every scan start received a concurrency limit within [10, 500],
\* whether the configuration was the default, was loaded from config.json or
\* was adjusted on the settings tab.
C33_StartLimitWithinRange ==
  \A r \in Runs : tasks[r].concurrency \in 10 .. 500

\* ------------------------------------------------------------------------
\* The ping statistics across sessions
\* ------------------------------------------------------------------------

\* C34: the number of received replies never exceeds the number of requests
\* sent, so that sent - recv of the loss percentage does not underflow.
C34_ReceivedAtMostSent == ping_stats.recv <= ping_stats.sent

\* C35: every event applied since the last start() was sent by the probing
\* loop of that start, so the statistics, history and log of a session and
\* its being stopped by an Error event come from its own loop only.
C35_OnlyCurrentSessionEvents ==
  \A k \in 1 .. Len(applied) : applied[k].loop = Len(ping_loops)

\* ------------------------------------------------------------------------
\* Editing the ping configuration
\* ------------------------------------------------------------------------

\* The characters typed on the target row: an ASCII one and one that is not.
\* 'j', 'k', 'h' and 'l' never reach edit_config_value: handle_config_key
\* takes them as navigation and adjustment keys.
Chars == {"a", "é"}

\* char::is_ascii
IsAscii(c) == c # "é"

\* String::pop
Pop(str) == IF str = <<>> THEN str ELSE SubSeq(str, 1, Len(str) - 1)

\* Mutation: a typed character is appended also while the tool is running.
EditConfigValue_WhileRunning(c) ==
  IF config_selected = 0 /\ IsAscii(c)
    THEN ConfigKey([ping_config EXCEPT !.target = Append(@, c)], config_selected)
    ELSE ConfigKey(ping_config, config_selected)

\* handle_config_key Char(c) -> edit_config_value(c)
EditConfigValue(c) ==
  IF ping_running
    THEN ConfigKey(ping_config, config_selected)
    ELSE IF config_selected = 0 /\ IsAscii(c)
           THEN ConfigKey([ping_config EXCEPT !.target = Append(@, c)], config_selected)
           ELSE ConfigKey(ping_config, config_selected)

\* handle_config_key Backspace
Backspace ==
  IF config_selected = 0 /\ ~ping_running
    THEN ConfigKey([ping_config EXCEPT !.target = Pop(@)], config_selected)
    ELSE ConfigKey(ping_config, config_selected)

\* The target is within MaxAdjust characters of the default's length.
TargetNear == Abs(Len(ping_config.target) - Len(DefaultTarget)) < MaxAdjust

\* The keys of the ping tool from PingTool::new on: space on the main area
\* and every key of the configuration panel, pressed in any state.
NextConfigEdit ==
  \/ CanStart /\ PingOnKey /\ ScanIdle /\ TrafficIdle /\ PanelsIdle
  \/ NextConfig /\ ScanIdle /\ TrafficIdle /\ PanelsIdle
  \/ PrevConfig /\ ScanIdle /\ TrafficIdle /\ PanelsIdle
  \/ \E dir \in {-1, 1} :
       SelectedNear /\ AdjustNumericConfig(dir) /\ ScanIdle /\ TrafficIdle /\ PanelsIdle
  \/ \E c \in Chars :
       TargetNear /\ EditConfigValue(c) /\ ScanIdle /\ TrafficIdle /\ PanelsIdle
  \/ TargetNear /\ Backspace /\ ScanIdle /\ TrafficIdle /\ PanelsIdle

SpecConfigEdit == InitPing /\ [][NextConfigEdit]_vars

\* C36: a step taken while the tool is running leaves the target, the
\* interval, the timeout and the packet size as they are, so the
\* configuration of a session stays what it was at start() until the tool
\* is stopped.
C36_ConfigFrozenWhileRunning ==
  [][ping_running => ping_config' = ping_config]_vars

\* A running session whose target, interval, timeout and packet size were
\* all edited before its start, with the target row selected.
C36_Witness ==
  /\ ping_running
  /\ config_selected = 0
  /\ ping_config.target = Append(DefaultTarget, "a")
  /\ ping_config.interval_ms = 900
  /\ ping_config.timeout_ms = 2100
  /\ ping_config.packet_size = 40

\* ------------------------------------------------------------------------
\* Completion of a scan run
\* ------------------------------------------------------------------------

\* C37: when the current run is Done and stop() was not called on it, every
\* probe of the run has finished: none is running or not yet started.
C37_DoneMeansAllProbed ==
  (status = "Done" /\ CurRun \in Runs /\ CurRun \notin stopped)
    => \A i \in Hosts(CurRun) : tasks[CurRun].pc[i] = "done"

\* ------------------------------------------------------------------------
\* Progress of a scan
\* ------------------------------------------------------------------------

\* A step of probe i of run r: it is polled, or one of its resolution calls
\* returns, or it does its closing bookkeeping.
ProbeStep(r, i) ==
  \/ Dispatch(r) /\ tasks[r].pc[i] = "new" /\ tasks'[r].pc[i] # "new"
  \/ \E f \in BOOLEAN : MacDone(r, i, f)
  \/ HostDone(r, i, NoHost)
  \/ CountDone(r, i)

\* The block of one address: a single host, which start_scan does not trim.
OneHostCidr == [addr |-> 1, prefix |-> IPV4_BITS]

\* Scans on a well-formed CIDR, started and stopped at any time.
NextScanFair ==
  \/ \E c \in Concurrencies : WithinBudget /\ StartScan(c) /\ PingIdle /\ TrafficIdle /\ PanelsIdle
  \/ Stop /\ idle_stop' = FALSE /\ PingIdle /\ TrafficIdle /\ PanelsIdle
  \/ Update /\ PingIdle /\ TrafficIdle /\ PanelsIdle
  \/ \E r \in Runs : \E i \in Hosts(r) : ProbeStep(r, i) /\ PingIdle /\ TrafficIdle /\ PanelsIdle

\* Some probe that can step does: the runtime keeps polling the spawned
\* tasks and every resolution call returns.
Progress ==
  \E r \in Runs : \E i \in Hosts(r) : ProbeStep(r, i) /\ PingIdle /\ TrafficIdle /\ PanelsIdle

\* The probes keep stepping while one of them can (each has finitely many
\* steps, so none is left behind), and the tick keeps running update.
SpecScanFair ==
  /\ InitWith(OneHostCidr)
  /\ [][NextScanFair]_vars
  /\ WF_vars(Progress)
  /\ WF_vars(Update /\ PingIdle /\ TrafficIdle /\ PanelsIdle)

\* The results the probes of the explored runs can send.
ProbeResults ==
  {ScanResult(SpawnedIps(OneHostCidr)[i], "", r) :
     i \in 1 .. Len(SpawnedIps(OneHostCidr)), r \in 1 .. MaxRuns}

Queued(res) == \E k \in 1 .. Len(chan) : chan[k] = res

Visible(res) == \E k \in 1 .. Len(results) : results[k] = res

DashChannelCap == 10

\* What a lookup task sends: Ok(info) in the language of its request, or
\* Err((key, debug)). The request number is history, not part of the message.
Answer(task, ok) ==
  [state |-> IF ok THEN "Success" ELSE "Failed", lang |-> task.lang, req |-> task.req]

\* The spawned task of a lookup gets its answer, or fails, and sends.
LookupAnswers(task, ok) ==
  /\ task \in lookups
  /\ Len(dash_chan) < DashChannelCap
  /\ dash_chan' = Append(dash_chan, Answer(task, ok))
  /\ lookups' = lookups \ {task}
  /\ UNCHANGED <<public_info, fetches, adaptervars, settingsvars>>

\* Dashboard::update, lines 177-182: at most one queued answer is taken.
RecvPublicInfo ==
  IF dash_chan # <<>>
    THEN public_info' = Head(dash_chan) /\ dash_chan' = Tail(dash_chan)
    ELSE UNCHANGED <<public_info, dash_chan>>

\* Dashboard::update: the queue, then the sampling of the active interface.
DashUpdate(dt, cur) ==
  /\ sampler = "dashboard"
  /\ RecvPublicInfo
  /\ SamplerUpdate(dt, cur)
  /\ UNCHANGED <<lookups, fetches, adaptervars, settingsvars>>

\* Dashboard on_key 'r': the best interface and the proxy are looked up again
\* (with the same outcome) and the public IP is fetched again.
DashOnKey ==
  /\ FetchPublicIp(language)
  /\ UNCHANGED <<adaptervars, settingsvars>>

\* App::toggle_language, Ctrl+L
ToggleLanguage ==
  /\ language' = LanguageNext(language)
  /\ FetchPublicIp(LanguageNext(language))
  /\ UNCHANGED <<scan_concurrency, settings_selected, adaptervars>>

\* App::new with the dashboard on screen; either language is configured.
InitDashboard ==
  /\ ScanInit(CHOOSE c \in ScanCidrs : c # Malformed)
  /\ platform = "windows"
  /\ PingInit
  /\ TrafficInitWith("dashboard", [a \in Adapters |-> [rx |-> 800, tx |-> 800]])
  /\ \E lang \in {"en-US", "zh-CN"} : PanelsInitWith(<<"Ethernet">>, 50, lang)

\* The dashboard tab: 'r', Ctrl+L, the lookups answering in any order, and
\* the tick with the counters standing still.
NextDashboard ==
  \/ fetches < MaxFetches /\ DashOnKey /\ ScanIdle /\ PingIdle /\ TrafficIdle
  \/ fetches < MaxFetches /\ ToggleLanguage /\ ScanIdle /\ PingIdle /\ TrafficIdle
  \/ \E task \in lookups : \E ok \in BOOLEAN :
       LookupAnswers(task, ok) /\ ScanIdle /\ PingIdle /\ TrafficIdle
  \/ \E dt \in Elapsed :
       clock < MaxClock /\ DashUpdate(dt, networks) /\ ScanIdle /\ PingIdle

SpecDashboard == InitDashboard /\ [][NextDashboard]_vars

\* C39: when every lookup has answered and the ticks have emptied the queue,
\* the public-info state is the answer to the most recent fetch request.
C39_ShowsLatestRequest ==
  (lookups = {} /\ dash_chan = <<>>)
    => (public_info.state # "Loading" /\ public_info.req = fetches)

====
